---- MODULE Spec2Model ----
(***************************************************************************)
(* A model of job_hunter.py (Web3 Job Hunter): the aggregation of job      *)
(* offers into JobHunter.jobs, the URL deduplication inside scrape_all,    *)
(* and the novelty tracking through the persisted registry                 *)
(* seen_jobs.json (_load_seen_jobs, _mark_seen_jobs, _save_seen_jobs).     *)
(*                                                                         *)
(* One process of the program is one run: JobHunter() then scrape_all().   *)
(* The registry file outlives the processes and is the only state shared   *)
(* by successive runs.                                                     *)
(***************************************************************************)
EXTENDS Integers, Sequences, FiniteSets, TLC

(***************************************************************************)
(* Bounds of the model.                                                    *)
(***************************************************************************)
\* Largest number of offers the adapters append to self.jobs in one run.
MaxJobs == 2
\* Number of processes (runs) started one after the other.
MaxRuns == 2
\* Longest list of offers the deduplication is applied to on its own.
MaxLen == 4

(***************************************************************************)
(* Input domains: the candidates the adapters can accept in a run, each    *)
(* the (title, company, url) of a JobOffer.  Two titles share the url "a", *)
(* two offers have no url.                                                 *)
(***************************************************************************)
Candidates ==
    { << "t1", "c1", "a" >>, << "t2", "c1", "a" >>, << "t1", "c1", "b" >>,
      << "t1", "c1", "c" >>, << "t1", "c1", "" >>, << "t2", "c1", "" >> }

\* Python's None, for JobOffer.first_seen (job_hunter.py:38).
None == "None"

(***************************************************************************)
(* JSON values, as json.load returns them and json.dump writes them.       *)
(* A value is an object (a dict), an array (a list) or null; the leaves of *)
(* a registry record are strings.                                          *)
(***************************************************************************)
EmptyMap == [k \in {} |-> "x"]

JObject(f) == [kind |-> "object", obj |-> f, arr |-> <<>>]
JArray(s) == [kind |-> "array", obj |-> EmptyMap, arr |-> s]
JNull == [kind |-> "null", obj |-> EmptyMap, arr |-> <<>>]

\* A bug: the record keeps the date only, not what the job was.
SeenRecordDateOnly(today, job) == JObject([first_seen |-> today])

\* The registry record _save_seen_jobs stores for a job (lines 96-100).
SeenRecord(today, job) ==
    JObject([first_seen |-> today, title |-> job.title, company |-> job.company])

\* d[k] = v on a dict.
DictPut(f, k, v) == [j \in DOMAIN f \cup {k} |-> IF j = k THEN v ELSE f[j]]

(***************************************************************************)
(* The clock.  clock counts days; today is its "%Y-%m-%d" rendering.       *)
(***************************************************************************)
DayNames ==
    << "2024-01-01", "2024-01-02", "2024-01-03", "2024-01-04", "2024-01-05", "2024-01-06" >>

\* datetime.now().strftime("%Y-%m-%d") (line 92).
Strftime(day) == DayNames[day]

\* A date some earlier run, before the modelled ones, has written.
EarlierDay == "2023-12-31"

(***************************************************************************)
(* The registry file seen_jobs.json.                                       *)
(*   absent   os.path.exists is false                                      *)
(*   binary   bytes that are not text in the locale's encoding             *)
(*   garbage  text that is not JSON                                        *)
(*   empty    a file of length 0 (what open(..., 'w') leaves)              *)
(*   partial  a strict prefix of a JSON document                           *)
(*   json     a complete JSON document, doc                                *)
(***************************************************************************)
FileOf(kind, doc) == [kind |-> kind, doc |-> doc]
JsonFile(doc) == FileOf("json", doc)

\* Records an earlier run, or an editor, has left in the file: a complete
\* one, one without first_seen, and a value that is no record.
EarlierRecord == JObject([first_seen |-> EarlierDay, title |-> "t0", company |-> "c0"])
RecordNoDate == JObject([title |-> "t1", company |-> "c1"])
EarlierRegistry ==
    JObject(DictPut(DictPut(DictPut(EmptyMap, "a", EarlierRecord), "b", RecordNoDate),
                    "c", JNull))

\* The contents the file can have when the first modelled run starts.
InitFiles ==
    { FileOf("absent", JNull), FileOf("binary", JNull), FileOf("garbage", JNull),
      JsonFile(JNull), JsonFile(JArray(<< >>)), JsonFile(JArray(<< "a" >>)),
      JsonFile(JObject(EmptyMap)), JsonFile(EarlierRegistry) }

VARIABLES
    file,        \* the content of seen_jobs.json
    pc,          \* the position of the current process
    seen_jobs,   \* self.seen_jobs
    jobs,        \* self.jobs
    clock,       \* the day datetime.now() falls on
    runNo,       \* number of processes started so far
    scraped,     \* history: self.jobs as aggregated, before deduplication
    loaded,      \* history: what _load_seen_jobs returned to this process
    fileAtStart, \* history: the file when this process started
    reported,    \* history: identity keys in the output of completed runs
    firstNew,    \* history: key -> date of the completed run that marked it new
    newCount,    \* history: key -> number of completed runs that marked it new
    lastRun,     \* history: the previous completed run
    call,        \* a call of one of the pure methods: arguments and outcome
    scrape       \* scrape_all's position in its adapters, and what they did

vars == << file, pc, seen_jobs, jobs, clock, runNo, scraped, loaded, fileAtStart,
           reported, firstNew, newCount, lastRun, call, scrape >>

(***************************************************************************)
(* JobOffer (lines 25-42): the fields the pipeline after aggregation reads *)
(* or writes.  is_new defaults to True and first_seen to None.             *)
(***************************************************************************)
JobOffer(title, company, url) ==
    [title |-> title, company |-> company, url |-> url,
     is_new |-> TRUE, first_seen |-> None]

\* Python truthiness of a string: `if job.url`.
Truthy(s) == s # ""

(***************************************************************************)
(* _load_seen_jobs (lines 79-87).                                          *)
(***************************************************************************)
\* Whether the call raises: json.load reads the file as text, and the
\* UnicodeDecodeError of undecodable bytes is neither a JSONDecodeError nor
\* an IOError, so the except clause of line 85 lets it through.
LoadRaises(f) == f.kind = "binary"

\* A bug: the file is not read, every process starts from an empty registry.
LoadSeenJobsEmpty(f) == JObject(EmptyMap)

\* The value returned when the call returns.
LoadSeenJobs(f) ==
    IF f.kind = "json" THEN f.doc        \* line 84: whatever the document holds
    ELSE JObject(EmptyMap)               \* lines 86-87: unparsable or absent

(***************************************************************************)
(* The identity key of the novelty tracker (lines 94 and 108).             *)
(***************************************************************************)
\* A bug: the url is the key even when it is empty.
JobKeyUrlOnly(job) == job.url

JobKey(job) == IF Truthy(job.url) THEN job.url ELSE job.title \o "|" \o job.company

\* `key in self.seen_jobs` raises TypeError on None.
InRaises(seen) == seen.kind = "null"

\* `key in self.seen_jobs` on a dict or a list.
In(key, seen) ==
    IF seen.kind = "object" THEN key \in DOMAIN seen.obj
    ELSE \E i \in 1..Len(seen.arr) : seen.arr[i] = key

(***************************************************************************)
(* The deduplication loop of scrape_all (lines 974-984).                   *)
(***************************************************************************)
\* The condition of line 978.
IsFirstUrl(seen_urls, job) == Truthy(job.url) /\ job.url \notin seen_urls

\* A bug: the url is toggled in the set instead of added to it.
SeenUrlsToggled(seen_urls, job) ==
    IF ~Truthy(job.url) THEN seen_urls
    ELSE IF job.url \in seen_urls THEN seen_urls \ {job.url}
    ELSE seen_urls \cup {job.url}

\* seen_urls after the loop body has run for job (line 979).
SeenUrlsAfter(seen_urls, job) ==
    IF IsFirstUrl(seen_urls, job) THEN seen_urls \cup {job.url} ELSE seen_urls

\* A bug: the elif of line 981 is missing, offers without url are dropped.
UniqueJobsNoElif(seen_urls, unique_jobs, job) ==
    IF IsFirstUrl(seen_urls, job) THEN Append(unique_jobs, job) ELSE unique_jobs

\* A bug: a repeated url replaces the offer kept for it (last one wins).
UniqueJobsLastWins(seen_urls, unique_jobs, job) ==
    IF IsFirstUrl(seen_urls, job) \/ ~Truthy(job.url) THEN Append(unique_jobs, job)
    ELSE Append(SelectSeq(unique_jobs, LAMBDA u : u.url # job.url), job)

\* unique_jobs after the loop body has run for job (lines 978-982).
UniqueJobsAfter(seen_urls, unique_jobs, job) ==
    IF IsFirstUrl(seen_urls, job) THEN Append(unique_jobs, job)
    ELSE IF ~Truthy(job.url) THEN Append(unique_jobs, job)
    ELSE unique_jobs

RECURSIVE DedupeLoop(_, _, _)
DedupeLoop(rest, seen_urls, unique_jobs) ==
    IF rest = << >> THEN unique_jobs
    ELSE DedupeLoop(Tail(rest),
                    SeenUrlsAfter(seen_urls, Head(rest)),
                    UniqueJobsAfter(seen_urls, unique_jobs, Head(rest)))

\* Lines 975-984: seen_urls = set(), unique_jobs = [], the loop.
Dedupe(js) == DedupeLoop(js, {}, << >>)

(***************************************************************************)
(* _mark_seen_jobs (lines 105-111).                                        *)
(***************************************************************************)
\* A bug: .get('first_seen') without the default.
GetFirstSeenNoDefault(record) ==
    IF "first_seen" \in DOMAIN record.obj THEN record.obj["first_seen"] ELSE None

\* dict.get('first_seen', 'Unknown') on a registry record (line 111).
GetFirstSeen(record) ==
    IF "first_seen" \in DOMAIN record.obj THEN record.obj["first_seen"] ELSE "Unknown"

\* Whether the loop body raises for job: `in` on None (TypeError), a str
\* index into a list (TypeError), .get on a value that is no dict
\* (AttributeError).
MarkJobRaises(seen, job) ==
    \/ InRaises(seen)
    \/ /\ In(JobKey(job), seen)
       /\ \/ seen.kind # "object"
          \/ seen.obj[JobKey(job)].kind # "object"

\* A bug: the registry is not consulted, every offer stays new.
MarkJobNever(seen, job) == job

\* The loop body for a job it does not raise on (lines 108-111).
MarkJob(seen, job) ==
    IF In(JobKey(job), seen)
    THEN [job EXCEPT !.is_new = FALSE,
                     !.first_seen = GetFirstSeen(seen.obj[JobKey(job)])]
    ELSE job

MarkSeenRaises(seen, js) == \E i \in 1..Len(js) : MarkJobRaises(seen, js[i])

\* A bug: each key is entered into the registry as its job is classified,
\* so a later job of the same list with that key is no longer new.
MarkSeenJobsIncremental(seen, js) ==
    [i \in 1..Len(js) |->
        IF \E j \in 1..(i - 1) : JobKey(js[j]) = JobKey(js[i])
        THEN [js[i] EXCEPT !.is_new = FALSE]
        ELSE MarkJob(seen, js[i])]

MarkSeenJobs(seen, js) == [i \in 1..Len(js) |-> MarkJob(seen, js[i])]

(***************************************************************************)
(* The update loop of _save_seen_jobs (lines 92-100).                      *)
(***************************************************************************)
\* Whether the loop body raises for job: `not in` on None, item assignment
\* with a str index on a list.
UpdateJobRaises(seen, job) ==
    \/ InRaises(seen)
    \/ seen.kind = "array" /\ ~In(JobKey(job), seen)

\* A bug: the guard of line 95 is missing, the record is always written.
UpdateJobAlways(seen, today, job) ==
    JObject(DictPut(seen.obj, JobKey(job), SeenRecord(today, job)))

\* A bug: the registry is assigned instead of one of its items.
UpdateJobReset(seen, today, job) ==
    IF In(JobKey(job), seen) THEN seen
    ELSE JObject(DictPut(EmptyMap, JobKey(job), SeenRecord(today, job)))

\* The loop body for a job it does not raise on (lines 94-100).
UpdateJob(seen, today, job) ==
    IF In(JobKey(job), seen) THEN seen
    ELSE JObject(DictPut(seen.obj, JobKey(job), SeenRecord(today, job)))

\* The loop: the registry after it, and whether it raised on the way.
RECURSIVE UpdateLoop(_, _, _)
UpdateLoop(seen, today, rest) ==
    IF rest = << >> THEN [raised |-> FALSE, seen |-> seen]
    ELSE IF UpdateJobRaises(seen, Head(rest)) THEN [raised |-> TRUE, seen |-> seen]
    ELSE UpdateLoop(UpdateJob(seen, today, Head(rest)), today, Tail(rest))

(***************************************************************************)
(* The state before the first process: the file is whatever the            *)
(* environment left, nothing has run.                                      *)
(***************************************************************************)
\* No pure method is being called; no adapter of scrape_all is being followed.
NoCall == [fn |-> "none"]

NoScrape == [adapter |-> 0]

NoRun == [n |-> 0, today |-> "", empty |-> FALSE]

Init ==
    /\ file \in InitFiles
    /\ pc = "idle"
    /\ seen_jobs = JObject(EmptyMap)
    /\ jobs = << >>
    /\ clock = 1
    /\ runNo = 0
    /\ scraped = << >>
    /\ loaded = JObject(EmptyMap)
    /\ fileAtStart = file
    /\ reported = {}
    /\ firstNew = EmptyMap
    /\ newCount = [k \in {} |-> 0]
    /\ lastRun = NoRun
    /\ call = NoCall
    /\ scrape = NoScrape

history == << reported, firstNew, newCount, lastRun >>

\* What the steps of the registry pipeline leave alone.
aside == << call, scrape >>

(***************************************************************************)
(* JobHunter.__init__ (lines 68-77) of a new process, started once the     *)
(* previous one has ended; some days may have passed.  An exception of     *)
(* _load_seen_jobs leaves the constructor and ends the process.            *)
(***************************************************************************)
Construct ==
    /\ UNCHANGED aside
    /\ pc \in {"idle", "done", "failed", "killed"}
    /\ runNo < MaxRuns
    /\ runNo' = runNo + 1
    /\ clock' \in (IF runNo = 0 THEN {clock} ELSE {clock, clock + 1})
    /\ fileAtStart' = file
    /\ jobs' = << >>
    /\ scraped' = << >>
    /\ IF LoadRaises(file)
       THEN /\ pc' = "failed"
            /\ UNCHANGED << seen_jobs, loaded >>
       ELSE /\ pc' = "scrape"
            /\ seen_jobs' = LoadSeenJobs(file)
            /\ loaded' = LoadSeenJobs(file)
    /\ UNCHANGED << file, history >>

(***************************************************************************)
(* An adapter accepts a candidate: self.jobs.append(JobOffer(...)), as in  *)
(* lines 262-272 and in every other scrape_* method.                       *)
(***************************************************************************)
ScrapeAppend ==
    /\ UNCHANGED aside
    /\ pc = "scrape"
    /\ Len(jobs) < MaxJobs
    /\ \E c \in Candidates : jobs' = Append(jobs, JobOffer(c[1], c[2], c[3]))
    /\ UNCHANGED << file, pc, seen_jobs, clock, runNo, scraped, loaded, fileAtStart,
                    history >>

(***************************************************************************)
(* scrape_all, lines 974-984: the adapters are done, self.jobs is          *)
(* replaced by unique_jobs.                                                *)
(***************************************************************************)
Deduplicate ==
    /\ UNCHANGED aside
    /\ pc = "scrape"
    /\ scraped' = jobs
    /\ jobs' = Dedupe(jobs)
    /\ pc' = "mark"
    /\ UNCHANGED << file, seen_jobs, clock, runNo, loaded, fileAtStart, history >>

(***************************************************************************)
(* scrape_all, line 987: self._mark_seen_jobs().  An exception leaves      *)
(* scrape_all and main, and ends the process.                              *)
(***************************************************************************)
MarkSeen ==
    /\ UNCHANGED aside
    /\ pc = "mark"
    /\ IF MarkSeenRaises(seen_jobs, jobs)
       THEN pc' = "failed" /\ UNCHANGED jobs
       ELSE pc' = "save" /\ jobs' = MarkSeenJobs(seen_jobs, jobs)
    /\ UNCHANGED << file, seen_jobs, clock, runNo, scraped, loaded, fileAtStart,
                    history >>

(***************************************************************************)
(* scrape_all, line 997: self._save_seen_jobs(), up to and including the   *)
(* open(SEEN_JOBS_FILE, 'w') of line 102, which creates or truncates the   *)
(* file.  An exception in the update loop ends the process before the      *)
(* file is opened.                                                         *)
(***************************************************************************)
SaveSeenJobsOpen ==
    /\ UNCHANGED aside
    /\ pc = "save"
    /\ LET r == UpdateLoop(seen_jobs, Strftime(clock), jobs) IN
          IF r.raised
          THEN /\ pc' = "failed"
               /\ UNCHANGED << file, seen_jobs >>
          ELSE /\ pc' = "dump"
               /\ seen_jobs' = r.seen
               /\ file' = FileOf("empty", JNull)
    /\ UNCHANGED << jobs, clock, runNo, scraped, loaded, fileAtStart, history >>

(***************************************************************************)
(* _save_seen_jobs, line 103: json.dump writes the registry and the with   *)
(* block closes the file; scrape_all returns, the run is complete.         *)
(***************************************************************************)
NewKeys == { JobKey(jobs[i]) : i \in { j \in 1..Len(jobs) : jobs[j].is_new } }

OutKeys == { JobKey(jobs[i]) : i \in 1..Len(jobs) }

SaveSeenJobsDump ==
    /\ UNCHANGED aside
    /\ pc = "dump"
    /\ file' = JsonFile(seen_jobs)
    /\ pc' = "done"
    /\ reported' = reported \cup OutKeys
    /\ firstNew' = [k \in DOMAIN firstNew \cup NewKeys |->
                       IF k \in DOMAIN firstNew THEN firstNew[k] ELSE Strftime(clock)]
    /\ newCount' = [k \in DOMAIN newCount \cup NewKeys |->
                       (IF k \in DOMAIN newCount THEN newCount[k] ELSE 0)
                       + (IF k \in NewKeys THEN 1 ELSE 0)]
    /\ lastRun' = [n |-> runNo, today |-> Strftime(clock),
                   empty |-> loaded = JObject(EmptyMap)]
    /\ UNCHANGED << seen_jobs, jobs, clock, runNo, scraped, loaded, fileAtStart >>

(***************************************************************************)
(* The process is interrupted (a signal, a power cut) inside the with      *)
(* block of lines 102-103: the file stays as the write left it, truncated  *)
(* or holding a prefix of the document.  An interruption at any other      *)
(* position leaves the file untouched.                                     *)
(***************************************************************************)
Kill ==
    /\ UNCHANGED aside
    /\ pc = "dump"
    /\ pc' = "killed"
    /\ file' \in {FileOf("empty", JNull), FileOf("partial", JNull)}
    /\ UNCHANGED << seen_jobs, jobs, clock, runNo, scraped, loaded, fileAtStart,
                    history >>

Next ==
    \/ Construct
    \/ ScrapeAppend
    \/ Deduplicate
    \/ MarkSeen
    \/ SaveSeenJobsOpen
    \/ SaveSeenJobsDump

\* Runs that are never interrupted: each ends by returning or by an exception.
Spec == Init /\ [][Next]_vars

NextKill == Next \/ Kill

\* Runs that may also be interrupted while the registry is written.
SpecKill == Init /\ [][NextKill]_vars

(***************************************************************************)
(* The deduplication step on its own: a process whose adapters have left   *)
(* any list of at most MaxLen offers in self.jobs, and which then runs     *)
(* lines 974-984.                                                          *)
(***************************************************************************)
Offers == { JobOffer(c[1], c[2], c[3]) : c \in Candidates }

OfferLists(n) == UNION { [1..k -> Offers] : k \in 0..n }

InitDedupe ==
    /\ file = FileOf("absent", JNull)
    /\ pc = "scrape"
    /\ seen_jobs = JObject(EmptyMap)
    /\ jobs \in OfferLists(MaxLen)
    /\ clock = 1
    /\ runNo = 1
    /\ scraped = << >>
    /\ loaded = JObject(EmptyMap)
    /\ fileAtStart = file
    /\ reported = {}
    /\ firstNew = EmptyMap
    /\ newCount = [k \in {} |-> 0]
    /\ lastRun = NoRun
    /\ call = NoCall
    /\ scrape = NoScrape

NextDedupe == Deduplicate

SpecDedupe == InitDedupe /\ [][NextDedupe]_vars

(***************************************************************************)
(* Properties of the deduplication step.                                   *)
(***************************************************************************)
NoUrl(job) == ~Truthy(job.url)

\* The offers of xs at the positions in I, in the order of xs.
RECURSIVE AtPositions(_, _, _)
AtPositions(xs, I, i) ==
    IF i > Len(xs) THEN << >>
    ELSE (IF i \in I THEN << xs[i] >> ELSE << >>) \o AtPositions(xs, I, i + 1)

\* Positions of xs holding an offer without url, or the first offer of a url.
FirstOccurrences(xs) ==
    { i \in 1..Len(xs) :
        NoUrl(xs[i]) \/ \A j \in 1..(i - 1) : xs[j].url # xs[i].url }

\* C1: once the deduplication step of scrape_all has run, no two offers of
\* the job list have the same non-empty url, and the offers without url of
\* the aggregated list are all still there, in their order.
C1_UniqueUrlsKeepNoUrl ==
    /\ pc # "scrape" =>
          \A i, j \in 1..Len(jobs) :
              (i # j /\ Truthy(jobs[i].url)) => jobs[i].url # jobs[j].url
    /\ pc = "mark" => SelectSeq(jobs, NoUrl) = SelectSeq(scraped, NoUrl)

\* The step has run on a list with a repeated url and two identical offers
\* without url: the repetition is gone, the two are kept.
C1_Witness ==
    /\ pc = "mark"
    /\ Len(scraped) = 4
    /\ Len(jobs) = 3
    /\ \E i, j \in 1..Len(jobs) : i # j /\ NoUrl(jobs[i]) /\ jobs[i] = jobs[j]
    /\ \E i, j \in 1..Len(scraped) :
          i # j /\ Truthy(scraped[i].url) /\ scraped[i].url = scraped[j].url

\* C2: the deduplication returns exactly the subsequence of its input made
\* of the first offer of every distinct non-empty url and of every offer
\* without url, in input order.
C2_FirstOccurrenceSubsequence ==
    pc = "mark" => jobs = AtPositions(scraped, FirstOccurrences(scraped), 1)

\* A later offer with an already seen url and another title is dropped
\* although an offer without url stands between the two.
C2_Witness ==
    /\ pc = "mark"
    /\ Len(scraped) = 4
    /\ scraped[1].url = "a" /\ NoUrl(scraped[2]) /\ scraped[3].url = "a"
    /\ scraped[3].title # scraped[1].title
    /\ scraped[4].url = "b"
    /\ jobs = << scraped[1], scraped[2], scraped[4] >>

\* C3: the deduplication step applied to its own output changes nothing.
C3_DedupeIdempotent ==
    pc = "mark" => Dedupe(jobs) = jobs

\* The output of a step that dropped two repetitions of one url.
C3_Witness ==
    /\ pc = "mark"
    /\ Len(scraped) = 4
    /\ Len(jobs) = 2
    /\ \A i \in {1, 2, 4} : scraped[i].url = "a"
    /\ NoUrl(scraped[3])

(***************************************************************************)
(* Properties of the novelty tracking across runs.                         *)
(***************************************************************************)
UrlsOf(xs) == [i \in 1..Len(xs) |-> xs[i].url]

EmptyRegistry == JObject(EmptyMap)

\* The offers are classified: _mark_seen_jobs has returned.
Marked == pc \in {"save", "dump", "done"}

\* C4: a run that starts from an empty registry with offers of urls a and b
\* marks both new and persists both keys with its date; the next run, which
\* starts on the file that run persisted, with offers of urls a and c marks
\* a not new with first_seen the date of the first run, and marks c new.
C4_NoveltyRoundTrip ==
    /\ (pc = "done" /\ loaded = EmptyRegistry /\ UrlsOf(jobs) = << "a", "b" >>) =>
          /\ \A i \in 1..2 : jobs[i].is_new /\ jobs[i].first_seen = None
          /\ file.kind = "json" /\ file.doc.kind = "object"
          /\ DOMAIN file.doc.obj = {"a", "b"}
          /\ \A i \in 1..2 : file.doc.obj[jobs[i].url] = SeenRecord(Strftime(clock), jobs[i])
    /\ (/\ pc \in {"save", "dump"}
        /\ lastRun.n = runNo - 1 /\ lastRun.empty
        /\ fileAtStart.kind = "json" /\ DOMAIN fileAtStart.doc.obj = {"a", "b"}
        /\ UrlsOf(jobs) = << "a", "c" >>) =>
          /\ jobs[1].is_new = FALSE /\ jobs[1].first_seen = lastRun.today
          /\ jobs[2].is_new = TRUE /\ jobs[2].first_seen = None

\* The second run of the round trip, on a later day than the first.
C4_Witness ==
    /\ pc = "dump" /\ runNo = 2
    /\ lastRun.n = 1 /\ lastRun.empty /\ lastRun.today # Strftime(clock)
    /\ fileAtStart.kind = "json" /\ DOMAIN fileAtStart.doc.obj = {"a", "b"}
    /\ loaded = fileAtStart.doc
    /\ UrlsOf(jobs) = << "a", "c" >>
    /\ jobs[1].is_new = FALSE /\ jobs[1].first_seen = lastRun.today
    /\ jobs[2].is_new = TRUE

\* The (title, company, url) of each offer of xs.
Ident(xs) == [i \in 1..Len(xs) |-> << xs[i].title, xs[i].company, xs[i].url >>]

Twins(x, y) == NoUrl(x) /\ NoUrl(y) /\ x.title = y.title /\ x.company = y.company

\* C5 as claimed: of two offers without url and with the same title and
\* company, both are kept by the deduplication and the second one is
\* marked not new.
C5_SecondTwinNotNew ==
    /\ pc \in {"mark", "save", "dump", "done"} =>
          Ident(SelectSeq(jobs, NoUrl)) = Ident(SelectSeq(scraped, NoUrl))
    /\ Marked =>
          \A i, j \in 1..Len(jobs) :
              (i < j /\ Twins(jobs[i], jobs[j])) => jobs[j].is_new = FALSE

\* C5 as amended: both offers are kept by the deduplication; the novelty
\* tracker gives them one key, "title|company", hence one classification:
\* both are marked not new, with the registry's first_seen, exactly when
\* the registry loaded at process start holds that key, and both are
\* marked new otherwise.
C5_TwinsKeptSameMark ==
    /\ pc \in {"mark", "save", "dump", "done"} =>
          Ident(SelectSeq(jobs, NoUrl)) = Ident(SelectSeq(scraped, NoUrl))
    /\ Marked =>
          \A i, j \in 1..Len(jobs) :
              (i < j /\ Twins(jobs[i], jobs[j])) =>
                  /\ jobs[i].is_new = jobs[j].is_new
                  /\ jobs[i].first_seen = jobs[j].first_seen
                  /\ jobs[j].is_new = FALSE <=>
                        In(jobs[j].title \o "|" \o jobs[j].company, loaded)

\* Two such offers in a run after a run that reported one: both kept, both
\* marked not new with the date of that run.
C5_Witness ==
    /\ pc = "dump" /\ runNo = 2
    /\ Len(scraped) = 2 /\ Len(jobs) = 2
    /\ Twins(jobs[1], jobs[2])
    /\ jobs[1].is_new = FALSE /\ jobs[2].is_new = FALSE
    /\ jobs[2].first_seen = lastRun.today
    /\ JobKey(jobs[2]) \in reported

\* C6: over the completed runs sharing the registry, a key is marked new in
\* at most one run, the first whose output contains it; in every later run
\* whose output contains it the offer is marked not new and its first_seen
\* is the date that first run recorded.
C6_NewInFirstRunOnly ==
    /\ \A k \in DOMAIN newCount : newCount[k] <= 1
    /\ pc = "dump" =>
          \A i \in 1..Len(jobs) :
              LET k == JobKey(jobs[i]) IN
                  /\ jobs[i].is_new => k \notin reported
                  /\ k \in DOMAIN firstNew =>
                        /\ jobs[i].is_new = FALSE
                        /\ jobs[i].first_seen = firstNew[k]

\* A later run, on another day, reports a key an earlier run marked new,
\* next to a key no run has reported.
C6_Witness ==
    /\ pc = "dump" /\ runNo = 2 /\ Len(jobs) = 2
    /\ JobKey(jobs[1]) \in DOMAIN firstNew
    /\ jobs[1].is_new = FALSE
    /\ jobs[1].first_seen = firstNew[JobKey(jobs[1])]
    /\ jobs[1].first_seen # Strftime(clock)
    /\ jobs[2].is_new /\ JobKey(jobs[2]) \notin reported

\* C7: the update of the registry changes no entry that is there when it
\* starts: in memory after the update, and in the file once it is written,
\* every key the process loaded has the entry it was loaded with.
C7_ExistingEntriesUnchanged ==
    /\ pc \in {"dump", "done"} =>
          \A k \in DOMAIN loaded.obj :
              k \in DOMAIN seen_jobs.obj /\ seen_jobs.obj[k] = loaded.obj[k]
    /\ pc = "done" =>
          /\ file.kind = "json"
          /\ \A k \in DOMAIN loaded.obj :
                k \in DOMAIN file.doc.obj /\ file.doc.obj[k] = loaded.obj[k]

\* A completed run reported an offer whose key was in the registry with
\* another title and another date.
C7_Witness ==
    /\ pc = "done" /\ Len(jobs) = 2
    /\ LET k == JobKey(jobs[1]) IN
          /\ k \in DOMAIN loaded.obj
          /\ loaded.obj[k].kind = "object"
          /\ "first_seen" \in DOMAIN loaded.obj[k].obj
          /\ loaded.obj[k].obj["title"] # jobs[1].title
          /\ loaded.obj[k].obj["first_seen"] # Strftime(clock)
          /\ file.doc.obj[k] = loaded.obj[k]
    /\ JobKey(jobs[2]) \notin DOMAIN loaded.obj

\* The identity keys the file holds: those of the mapping it contains.
PersistedKeys(f) ==
    IF f.kind = "json" /\ f.doc.kind = "object" THEN DOMAIN f.doc.obj ELSE {}

Malformed(f) ==
    \/ f.kind # "json"
    \/ f.doc.kind # "object"
    \/ \E k \in DOMAIN f.doc.obj : f.doc.obj[k].kind # "object"

\* C9: whatever a missing or malformed registry file holds, loading it
\* gives the empty mapping and the run goes on to its end without an
\* error, every offer of the run being marked new.
C9_MalformedRegistryNotFatal ==
    (runNo >= 1 /\ Malformed(fileAtStart)) =>
        /\ pc # "failed"
        /\ loaded = EmptyRegistry
        /\ Marked => \A i \in 1..Len(jobs) : jobs[i].is_new

\* C10: the registry is written atomically: at every moment the file holds
\* the complete registry as it was when the run started or the complete
\* updated registry.
C10_FileOldOrUpdated ==
    \/ file = fileAtStart
    \/ pc \in {"dump", "done", "killed"} /\ file = JsonFile(seen_jobs)

(***************************************************************************)
(* Text, as the relevance filter and the date policy read it.  A str is a  *)
(* string; ASCII letters are the ones str.lower() changes here.            *)
(***************************************************************************)
UpperLetters == "ABCDEFGHIJKLMNOPQRSTUVWXYZ"

LowerLetters == "abcdefghijklmnopqrstuvwxyz"

CharAt(s, i) == SubSeq(s, i, i)

\* Position of the one-character string c in the alphabet, 0 when absent.
RECURSIVE IndexIn(_, _, _)
IndexIn(alphabet, c, i) ==
    IF i > Len(alphabet) THEN 0
    ELSE IF CharAt(alphabet, i) = c THEN i
    ELSE IndexIn(alphabet, c, i + 1)

LowerChar(c) ==
    LET i == IndexIn(UpperLetters, c, 1) IN
        IF i = 0 THEN c ELSE CharAt(LowerLetters, i)

\* str.lower()
RECURSIVE Lower(_)
Lower(s) == IF s = "" THEN "" ELSE LowerChar(CharAt(s, 1)) \o Lower(Tail(s))

\* keyword in text
Contains(text, keyword) ==
    \E i \in 1..(Len(text) - Len(keyword) + 1) :
        SubSeq(text, i, i + Len(keyword) - 1) = keyword

(***************************************************************************)
(* The keyword lists, lines 49-56 and 59-66, in source order.              *)
(***************************************************************************)
DESIRED_KEYWORDS ==
    << "growth", "community", "marketing", "communication", "bd",
       "business development", "partnerships", "partner", "relations",
       "social media", "content", "brand", "ambassador", "advocate",
       "engagement", "ecosystem", "strategy", "lead", "manager", "head of",
       "director", "defi", "dune", "analytics", "data analyst", "research",
       "writer", "editor", "pr", "public relations" >>

EXCLUDE_KEYWORDS ==
    << "engineer", "engineering", "developer", "solidity", "rust", "backend",
       "frontend", "full stack", "fullstack", "smart contract", "devops",
       "sre", "infrastructure", "architect", "software", "python developer",
       "java", "golang", "node.js", "react developer", "blockchain developer",
       "protocol engineer", "security engineer", "qa engineer",
       "test engineer", "mobile developer", "ios", "android developer" >>

\* The two literal lists of line 121.
WaivableKeywords == {"engineer", "engineering"}

RescueTerms == {"marketing", "growth", "community", "bd", "partnerships"}

\* f"{title} {description}".lower(), line 115
FoldedText(title, description) == Lower(title \o " " \o description)

\* Line 121: the keyword, found in the text, is passed over.
WaivedAnyKeyword(keyword, text) == \E k \in RescueTerms : Contains(text, k)

Waived(keyword, text) ==
    keyword \in WaivableKeywords /\ \E k \in RescueTerms : Contains(text, k)

\* The loop of lines 118-123 from its i-th keyword on: TRUE when it returns
\* False, FALSE when it runs to its end.
RECURSIVE ExclusionLoop(_, _)
ExclusionLoop(text, i) ==
    IF i > Len(EXCLUDE_KEYWORDS) THEN FALSE
    ELSE IF Contains(text, EXCLUDE_KEYWORDS[i])
         THEN (IF Waived(EXCLUDE_KEYWORDS[i], text)
               THEN ExclusionLoop(text, i + 1)
               ELSE TRUE)
         ELSE ExclusionLoop(text, i + 1)

\* The loop of lines 126-128 from its i-th keyword on, and line 130.
RECURSIVE InclusionLoop(_, _)
InclusionLoop(text, i) ==
    IF i > Len(DESIRED_KEYWORDS) THEN FALSE
    ELSE IF Contains(text, DESIRED_KEYWORDS[i]) THEN TRUE
    ELSE InclusionLoop(text, i + 1)

IsRelevantJobOf(text) ==
    IF ExclusionLoop(text, 1) THEN FALSE ELSE InclusionLoop(text, 1)

IsRelevantJobUnfolded(title, description) ==
    IsRelevantJobOf(title \o " " \o description)

IsRelevantJob(title, description) ==
    IsRelevantJobOf(FoldedText(title, description))

(***************************************************************************)
(* The pure methods on their own: a JobHunter whose adapter calls one of   *)
(* them.  The registry pipeline is not running.                            *)
(***************************************************************************)
pipeline == << file, pc, seen_jobs, jobs, clock, runNo, scraped, loaded,
               fileAtStart, history >>

\* A first process, constructed where there is no registry file, about to
\* call its adapters.
InitStarted ==
    /\ file = FileOf("absent", JNull)
    /\ pc = "scrape"
    /\ seen_jobs = JObject(EmptyMap)
    /\ jobs = << >>
    /\ clock = 1
    /\ runNo = 1
    /\ scraped = << >>
    /\ loaded = JObject(EmptyMap)
    /\ fileAtStart = file
    /\ reported = {}
    /\ firstNew = EmptyMap
    /\ newCount = [k \in {} |-> 0]
    /\ lastRun = NoRun

InitPure == InitStarted /\ scrape = NoScrape

(***************************************************************************)
(* is_relevant_job (lines 113-130) called with a title and a description,  *)
(* as the adapters do at lines 261, 400, 445 and the like.                 *)
(***************************************************************************)
Titles ==
    { "Senior Protocol Engineer, Growth", "Backend Engineer",
      "Senior Engineer, Growth", "senior engineer, growth",
      "Engineering Manager, Community", "Software Engineer",
      "GROWTH LEAD", "Growth Lead", "growth lead",
      "Trust Marketing Manager", "Rust Marketing Manager",
      "Approach Specialist", "PR Specialist", "Curious Marketing",
      "Head of BD", "Accountant", "" }

Descriptions ==
    { "", "Join our growth team", "JOIN OUR GROWTH TEAM", "Rust required" }

InitRelevant ==
    /\ InitPure
    /\ \E t \in Titles, d \in Descriptions :
          call = [fn |-> "is_relevant_job", title |-> t, description |-> d,
                  returned |-> FALSE, result |-> FALSE]

IsRelevantJobCall ==
    /\ call.fn = "is_relevant_job"
    /\ ~call.returned
    /\ call' = [call EXCEPT !.returned = TRUE,
                            !.result = IsRelevantJob(call.title, call.description)]
    /\ UNCHANGED << pipeline, scrape >>

NextRelevant == IsRelevantJobCall

SpecRelevant == InitRelevant /\ [][NextRelevant]_vars

(***************************************************************************)
(* Properties of the relevance filter.                                     *)
(***************************************************************************)
Returned(fn) == call.fn = fn /\ call.returned

\* C11: is_relevant_job returns true for the title "Senior Protocol
\* Engineer, Growth" with an empty description, and false for the title
\* "Backend Engineer".
C11_RescueExamples ==
    (Returned("is_relevant_job") /\ call.description = "") =>
        /\ call.title = "Senior Protocol Engineer, Growth" => call.result = TRUE
        /\ call.title = "Backend Engineer" => call.result = FALSE

Range(seq) == { seq[i] : i \in 1..Len(seq) }

\* C12: is_relevant_job returns true exactly when every exclusion keyword
\* occurring in the case-folded text "title description" is "engineer" or
\* "engineering" in a text containing one of marketing, growth, community,
\* bd, partnerships, and at least one inclusion keyword occurs in the text.
C12_RelevantIff ==
    Returned("is_relevant_job") =>
        LET text == Lower(call.title \o " " \o call.description)
            rescued == \E r \in {"marketing", "growth", "community", "bd",
                                 "partnerships"} : Contains(text, r)
        IN  call.result <=>
               /\ \A k \in Range(EXCLUDE_KEYWORDS) :
                     Contains(text, k) =>
                        (k \in {"engineer", "engineering"} /\ rescued)
               /\ \E k \in Range(DESIRED_KEYWORDS) : Contains(text, k)

\* A text with "engineer" and a rescue term, an inclusion keyword, and one
\* more exclusion keyword that cannot be waived: rejected.
C12_Witness ==
    /\ Returned("is_relevant_job")
    /\ LET text == Lower(call.title \o " " \o call.description) IN
          /\ Contains(text, "engineer")
          /\ Contains(text, "growth")
          /\ Contains(text, "protocol engineer")
    /\ call.result = FALSE

IsLetter(c) == IndexIn(LowerLetters, c, 1) # 0 \/ IndexIn(UpperLetters, c, 1) # 0

\* The keyword occurs in the text as a word of its own.
StandaloneIn(text, keyword) ==
    \E i \in 1..(Len(text) - Len(keyword) + 1) :
        /\ SubSeq(text, i, i + Len(keyword) - 1) = keyword
        /\ i = 1 \/ ~IsLetter(CharAt(text, i - 1))
        /\ i + Len(keyword) > Len(text) \/ ~IsLetter(CharAt(text, i + Len(keyword)))

\* C13: is_relevant_job gives the same result for inputs that differ only
\* in letter case, and a keyword inside a longer word decides as a keyword
\* standing alone does: an exclusion keyword that cannot be waived rejects,
\* and without exclusion keywords an inclusion keyword accepts.
C13_CaseInsensitiveSubstring ==
    Returned("is_relevant_job") =>
        LET text == Lower(call.title \o " " \o call.description) IN
           /\ \A t \in Titles, d \in Descriptions :
                 (Lower(t) = Lower(call.title) /\ Lower(d) = Lower(call.description))
                    => IsRelevantJob(t, d) = call.result
           /\ \A k \in Range(EXCLUDE_KEYWORDS) \ {"engineer", "engineering"} :
                 Contains(text, k) => ~call.result
           /\ (\A k \in Range(EXCLUDE_KEYWORDS) : ~Contains(text, k)) =>
                 \A k \in Range(DESIRED_KEYWORDS) : Contains(text, k) => call.result

\* A title in capitals whose only keyword is "pr" inside "approach", with a
\* description in capitals: accepted.
C13_Witness ==
    /\ Returned("is_relevant_job")
    /\ call.title = "Approach Specialist"
    /\ call.description = "JOIN OUR GROWTH TEAM"
    /\ ~StandaloneIn(Lower(call.title), "pr")
    /\ \A k \in Range(DESIRED_KEYWORDS) : ~StandaloneIn(Lower(call.title), k)
    /\ call.result = TRUE

(***************************************************************************)
(* Time.  A datetime is the number of hours since datetime.min, which is   *)
(* 0001-01-01 00:00; the hour is the smallest unit the date policy         *)
(* computes with.  The calendar is the proleptic Gregorian one of the      *)
(* datetime module.                                                        *)
(***************************************************************************)
HoursPerDay == 24

IsLeap(y) == (y % 4 = 0) /\ ((y % 100 # 0) \/ (y % 400 = 0))

DaysInMonth(y, m) ==
    IF m = 2 THEN (IF IsLeap(y) THEN 29 ELSE 28)
    ELSE IF m \in {4, 6, 9, 11} THEN 30
    ELSE 31

RECURSIVE DaysBeforeMonth(_, _)
DaysBeforeMonth(y, m) ==
    IF m = 1 THEN 0 ELSE DaysBeforeMonth(y, m - 1) + DaysInMonth(y, m - 1)

DaysBeforeYear(y) ==
    (y - 1) * 365 + ((y - 1) \div 4) - ((y - 1) \div 100) + ((y - 1) \div 400)

\* datetime(y, m, d, h) as hours since datetime.min
DateTime(y, m, d, h) ==
    (DaysBeforeYear(y) + DaysBeforeMonth(y, m) + (d - 1)) * HoursPerDay + h

\* datetime.now() at hour h of the day the clock shows (see DayNames)
NowAt(day, h) == DateTime(2024, 1, day, h)

\* The outcomes of a method returning Optional[datetime]: an exception
\* leaves the method, or it returns None, or it returns a datetime.
Raises == [raised |-> TRUE, known |-> FALSE, at |-> 0]

Unknown == [raised |-> FALSE, known |-> FALSE, at |-> 0]

Known(t) == [raised |-> FALSE, known |-> TRUE, at |-> t]

\* now - timedelta(hours = h): OverflowError ("date value out of range")
\* when the difference is before datetime.min.
Minus(now, h) == IF now - h < 0 THEN Raises ELSE Known(now - h)

(***************************************************************************)
(* Digits, whitespace and the re.search of lines 163-165.                  *)
(***************************************************************************)
Digits == "0123456789"

IsDigit(c) == IndexIn(Digits, c, 1) # 0

IsSpace(c) == c = " "

\* int(s) for a string of digits
RECURSIVE ToInt(_)
ToInt(s) ==
    IF s = "" THEN 0
    ELSE 10 * ToInt(SubSeq(s, 1, Len(s) - 1)) + (IndexIn(Digits, CharAt(s, Len(s)), 1) - 1)

\* Length of the longest run of digits of s starting at position i.
RECURSIVE DigitRunLen(_, _)
DigitRunLen(s, i) ==
    IF i > Len(s) \/ ~IsDigit(CharAt(s, i)) THEN 0 ELSE 1 + DigitRunLen(s, i + 1)

\* First position from i on that holds no whitespace.
RECURSIVE SkipSpaces(_, _)
SkipSpaces(s, i) ==
    IF i > Len(s) \/ ~IsSpace(CharAt(s, i)) THEN i ELSE SkipSpaces(s, i + 1)

StartsWith(s, i, prefix) ==
    /\ i + Len(prefix) - 1 <= Len(s)
    /\ SubSeq(s, i, i + Len(prefix) - 1) = prefix

\* str.strip()
RECURSIVE StripRight(_)
StripRight(s) ==
    IF s # "" /\ IsSpace(CharAt(s, Len(s)))
    THEN StripRight(SubSeq(s, 1, Len(s) - 1)) ELSE s

Strip(s) == LET i == SkipSpaces(s, 1) IN StripRight(SubSeq(s, i, Len(s)))

\* (\d+)\s*(?:u1|u2|...) matches at position i.  \d+ and \s* are greedy and
\* giving characters back never helps, since a unit starts with a letter.
\* The optional \s*(?:ago)? that follows has no part in whether the pattern
\* matches or in group 1.
MatchesAt(s, i, units) ==
    LET n == DigitRunLen(s, i) IN
        /\ n > 0
        /\ \E k \in 1..Len(units) : StartsWith(s, SkipSpaces(s, i + n), units[k])

\* re.search: the leftmost position where the pattern matches, 0 if none.
RECURSIVE SearchFrom(_, _, _)
SearchFrom(s, units, i) ==
    IF i > Len(s) THEN 0
    ELSE IF MatchesAt(s, i, units) THEN i
    ELSE SearchFrom(s, units, i + 1)

\* int(match.group(1)) for a match at position i
Group1(s, i) == ToInt(SubSeq(s, i, i + DigitRunLen(s, i) - 1))

(***************************************************************************)
(* parse_relative_date, lines 146-174: markers and relative units.         *)
(***************************************************************************)
TodayMarkers == << "today", "just now", "new", "just posted" >>

\* The entries of patterns, lines 156-161: the alternatives of the unit
\* group, and the hours one unit stands for (lines 167-174).
DayPattern == [units |-> << "day", "d" >>, hours |-> HoursPerDay]

WeekPattern == [units |-> << "week", "w" >>, hours |-> 7 * HoursPerDay]

MonthPattern == [units |-> << "month", "mo" >>, hours |-> 30 * HoursPerDay]

HourPattern == [units |-> << "hour", "hr", "h" >>, hours |-> 1]

patterns == << DayPattern, WeekPattern, MonthPattern, HourPattern >>

\* Index of the first pattern, from the i-th on, that matches; 0 if none.
RECURSIVE FirstPattern(_, _, _)
FirstPattern(s, ps, i) ==
    IF i > Len(ps) THEN 0
    ELSE IF SearchFrom(s, ps[i].units, 1) # 0 THEN i
    ELSE FirstPattern(s, ps, i + 1)

(***************************************************************************)
(* datetime.strptime for the formats of lines 177-180.  strptime turns the *)
(* format into a regular expression, matches it at the start of the text   *)
(* and raises ValueError when text is left over or the fields are not a    *)
(* date.  A format is the sequence of its directives and literals; a blank *)
(* in a format stands for \s+.  The text has been lower-cased.             *)
(***************************************************************************)
FullMonths ==
    << "january", "february", "march", "april", "may", "june", "july",
       "august", "september", "october", "november", "december" >>

AbbrMonths ==
    << "jan", "feb", "mar", "apr", "may", "jun", "jul", "aug", "sep", "oct",
       "nov", "dec" >>

date_formats ==
    << << "%Y", "-", "%m", "-", "%d" >>,
       << "%d", "/", "%m", "/", "%Y" >>,
       << "%m", "/", "%d", "/", "%Y" >>,
       << "%B", " ", "%d", ",", " ", "%Y" >>,
       << "%b", " ", "%d", ",", " ", "%Y" >>,
       << "%d", " ", "%B", " ", "%Y" >>,
       << "%d", " ", "%b", " ", "%Y" >> >>

NoMatch == [ok |-> FALSE, y |-> 0, m |-> 0, d |-> 0]

DigitAt(s, i) == IF i <= Len(s) THEN IndexIn(Digits, CharAt(s, i), 1) - 1 ELSE -1

\* %m is (1[0-2]|0[1-9]|[1-9]) and %d is (3[0-1]|[1-2]\d|0[1-9]|[1-9]| [1-9]):
\* the two characters at i are one of the two-digit alternatives.  (The
\* alternative " [1-9]" of %d needs a blank the \s+ before it has taken.)
TwoDigits(s, i, directive) ==
    LET a == DigitAt(s, i)
        b == DigitAt(s, i + 1)
    IN  IF directive = "%m"
        THEN (a = 1 /\ b \in 0..2) \/ (a = 0 /\ b \in 1..9)
        ELSE (a = 3 /\ b \in 0..1) \/ (a \in 1..2 /\ b \in 0..9) \/ (a = 0 /\ b \in 1..9)

OneDigit(s, i) == DigitAt(s, i) \in 1..9

\* Index of the first name the text continues with at i, 0 if none.
RECURSIVE MonthAt(_, _, _, _)
MonthAt(s, i, names, k) ==
    IF k > Len(names) THEN 0
    ELSE IF StartsWith(s, i, names[k]) THEN k
    ELSE MonthAt(s, i, names, k + 1)

\* The regular expression of fmt from its k-th element on, matched at
\* position i of s, with the fields read so far.
RECURSIVE MatchFormat(_, _, _, _, _)
MatchFormat(s, i, fmt, k, got) ==
    IF k > Len(fmt) THEN [got EXCEPT !.ok = (i = Len(s) + 1)]
    ELSE LET e == fmt[k] IN
      IF e = "%Y"
      THEN IF DigitRunLen(s, i) >= 4
           THEN MatchFormat(s, i + 4, fmt, k + 1,
                            [got EXCEPT !.y = ToInt(SubSeq(s, i, i + 3))])
           ELSE NoMatch
      ELSE IF e \in {"%m", "%d"}
      THEN LET put(v) == IF e = "%m" THEN [got EXCEPT !.m = v]
                                      ELSE [got EXCEPT !.d = v]
               two == IF TwoDigits(s, i, e)
                      THEN MatchFormat(s, i + 2, fmt, k + 1,
                                       put(10 * DigitAt(s, i) + DigitAt(s, i + 1)))
                      ELSE NoMatch
           IN  IF two.ok THEN two
               ELSE IF OneDigit(s, i)
                    THEN MatchFormat(s, i + 1, fmt, k + 1, put(DigitAt(s, i)))
                    ELSE NoMatch
      ELSE IF e \in {"%B", "%b"}
      THEN LET names == IF e = "%B" THEN FullMonths ELSE AbbrMonths
               n == MonthAt(s, i, names, 1)
           IN  IF n # 0
               THEN MatchFormat(s, i + Len(names[n]), fmt, k + 1,
                                [got EXCEPT !.m = n])
               ELSE NoMatch
      ELSE IF e = " "
      THEN IF i <= Len(s) /\ IsSpace(CharAt(s, i))
           THEN MatchFormat(s, SkipSpaces(s, i), fmt, k + 1, got)
           ELSE NoMatch
      ELSE IF StartsWith(s, i, e)
           THEN MatchFormat(s, i + Len(e), fmt, k + 1, got)
           ELSE NoMatch

\* The fields name a day of the calendar (else datetime raises ValueError).
IsDate(y, m, d) == y >= 1 /\ m \in 1..12 /\ d \in 1..DaysInMonth(y, m)

\* datetime.strptime(date_str, fmt): ValueError or a datetime at midnight.
Strptime(date_str, fmt) ==
    LET r == MatchFormat(date_str, 1, fmt, 1, [NoMatch EXCEPT !.ok = TRUE]) IN
        IF r.ok /\ IsDate(r.y, r.m, r.d)
        THEN Known(DateTime(r.y, r.m, r.d, 0))
        ELSE Raises

\* The loop of lines 181-185 from the i-th format on, and line 187.
RECURSIVE FormatsLoop(_, _)
FormatsLoop(date_str, i) ==
    IF i > Len(date_formats) THEN Unknown
    ELSE IF ~Strptime(date_str, date_formats[i]).raised
         THEN Strptime(date_str, date_formats[i])
         ELSE FormatsLoop(date_str, i + 1)

(***************************************************************************)
(* The raw date an adapter passes: a str, or whatever else a JSON item     *)
(* holds under the date key (line 442).                                    *)
(***************************************************************************)
Str(s) == [type |-> "str", text |-> s]

NoneValue == [type |-> "NoneType", text |-> ""]

\* A number, written in decimal.
IntValue(digits) == [type |-> "int", text |-> digits]

\* not date_str, line 141
Falsy(raw) ==
    \/ raw.type = "NoneType"
    \/ raw.type = "str" /\ raw.text = ""
    \/ raw.type = "int" /\ raw.text = "0"

\* The relative step, lines 163-174, for the pattern at index k.
RelativeStep(date_str, now, k) ==
    Minus(now, Group1(date_str, SearchFrom(date_str, patterns[k].units, 1))
                  * patterns[k].hours)

\* Lines 147-187 on the lower-cased, stripped text.
ParseText(date_str, now) ==
    IF \E k \in 1..Len(TodayMarkers) : Contains(date_str, TodayMarkers[k])
    THEN Known(now)
    ELSE IF Contains(date_str, "yesterday") THEN Minus(now, HoursPerDay)
    ELSE IF FirstPattern(date_str, patterns, 1) # 0
    THEN RelativeStep(date_str, now, FirstPattern(date_str, patterns, 1))
    ELSE FormatsLoop(date_str, 1)

\* parse_relative_date(date_str) when datetime.now() gives now.  A value
\* that is not a str has no lower(): AttributeError at line 144.
ParseRelativeDate(raw, now) ==
    IF Falsy(raw) THEN Unknown
    ELSE IF raw.type # "str" THEN Raises
    ELSE ParseText(Strip(Lower(raw.text)), now)

(***************************************************************************)
(* is_recent, lines 132-137, when datetime.now() gives now.                *)
(***************************************************************************)
max_age_days == 30

IsRecentExclusive(posted_date, now) ==
    IF ~posted_date.known THEN TRUE
    ELSE posted_date.at > now - max_age_days * HoursPerDay

IsRecent(posted_date, now) ==
    IF ~posted_date.known THEN TRUE
    ELSE posted_date.at >= now - max_age_days * HoursPerDay

(***************************************************************************)
(* The date policy on its own: an adapter holds the raw date of one item,  *)
(* calls parse_relative_date and then is_recent, as in lines 442-451 of    *)
(* scrape_jobstash (and 355-357, 404-406, 521-523, 813-815).  An exception *)
(* is caught by the except clause around the item (line 463), which moves  *)
(* on to the next item.  Each method reads the clock itself; the second    *)
(* reading is not before the first.                                        *)
(***************************************************************************)
DateTexts ==
    { "", " ", "today", "Just now", "New", "just posted", "new yesterday",
      "Today 2 days ago", "Yesterday", "yesterday 3 days ago",
      "2 days ago", "2 weeks, 3 days ago", "1 week ago", "2w",
      "1 month ago", "3 mo", "5 hours ago", "3h", "1 hr", "1 week 5 hours",
      "30 days ago", "31 days ago", "30d", "999999 days ago", "2 dozen",
      "15 December 2023", "5 Dec 2023", "5 March 2023", "5 Mar 2023",
      "December 5, 2023", "Dec 5, 2023",
      "2023-12-15", "2023-12-02", "2023-12-01", "15/12/2023", "12/15/2023",
      "05/06/2023", "2023-02-30", "13/13/2023",
      "5 January 2023", "5 February 2023", "5 April 2023", "5 May 2023",
      "5 June 2023", "5 July 2023", "5 August 2023", "5 September 2023",
      "5 October 2023", "5 November 2023", "June 5, 2023", "Sep 5, 2023",
      "posted 2023-12-15 3d", "10 days 2023-12-15", "soon" }

RawDates ==
    { Str(t) : t \in DateTexts } \cup { NoneValue, IntValue("0"), IntValue("1700000000000") }

\* Hours of the day at which the clock is read.
HoursOfDay == {0, 10}

InitDates ==
    /\ InitPure
    /\ \E raw \in RawDates, h \in HoursOfDay :
          call = [fn |-> "parse_relative_date", date_str |-> raw,
                  now |-> NowAt(clock, h), stage |-> "parse",
                  posted_date |-> Unknown, recent_now |-> 0]

\* posted_date = self.parse_relative_date(posted_str); line 449 passes a
\* falsy posted_str by, with the result None that line 141 gives.
ParseRelativeDateCall ==
    /\ call.fn = "parse_relative_date"
    /\ call.stage = "parse"
    /\ LET r == ParseRelativeDate(call.date_str, call.now) IN
          call' = [call EXCEPT !.posted_date = r,
                               !.stage = IF r.raised THEN "raised" ELSE "recent"]
    /\ UNCHANGED << pipeline, scrape >>

\* if self.is_recent(posted_date): self.jobs.append(...)
IsRecentCall ==
    /\ call.fn = "parse_relative_date"
    /\ call.stage = "recent"
    /\ \E now \in {call.now, call.now + 1} :
          call' = [call EXCEPT !.recent_now = now,
                               !.stage = IF IsRecent(call.posted_date, now)
                                         THEN "kept" ELSE "dropped"]
    /\ UNCHANGED << pipeline, scrape >>

NextDates == ParseRelativeDateCall \/ IsRecentCall

SpecDates == InitDates /\ [][NextDates]_vars

(***************************************************************************)
(* Properties of the date policy.                                          *)
(***************************************************************************)
Parsed == call.fn = "parse_relative_date" /\ call.stage # "parse"

\* The text the policy works on, for a raw date that is a non-empty str.
PolicyText == Strip(Lower(call.date_str.text))

HasMarker(text) ==
    \E x \in {"today", "just now", "new", "just posted"} : Contains(text, x)

\* A number followed, after optional whitespace, by a unit of the list.
HasUnit(text, units) ==
    \E i \in 1..Len(text) :
        /\ IsDigit(CharAt(text, i))
        /\ \E j \in (i + 1)..Len(text) :
              /\ \A k \in (i + 1)..(j - 1) : IsSpace(CharAt(text, k))
              /\ \E u \in units : StartsWith(text, j, u)

\* The numbers written in the text: its maximal runs of digits.
NumbersIn(text) ==
    { ToInt(SubSeq(text, i, i + DigitRunLen(text, i) - 1)) :
        i \in { j \in 1..Len(text) :
                  IsDigit(CharAt(text, j)) /\ (j = 1 \/ ~IsDigit(CharAt(text, j - 1))) } }

AllUnits == {"day", "d", "week", "w", "month", "mo", "hour", "hr", "h"}

\* C14: parse_relative_date decides by the first step that applies: empty
\* or missing text gives None; else a today marker gives the current time;
\* else "yesterday" gives the current time minus one day; else a number
\* followed by a unit gives a time relative to the current time; only
\* otherwise the result is what the absolute formats give.
C14_PolicyOrder ==
    (Parsed /\ call.date_str.type \in {"str", "NoneType"}) =>
        LET r == call.posted_date IN
        IF call.date_str.type = "NoneType" \/ call.date_str.text = ""
        THEN r = Unknown
        ELSE IF HasMarker(PolicyText) THEN r = Known(call.now)
        ELSE IF Contains(PolicyText, "yesterday")
        THEN r = Known(call.now - HoursPerDay)
        ELSE IF HasUnit(PolicyText, AllUnits)
        THEN /\ ~r.raised
             /\ r.known
             /\ \E v \in NumbersIn(PolicyText), h \in {1, 24, 7 * 24, 30 * 24} :
                   r.at = call.now - v * h
        ELSE r = FormatsLoop(PolicyText, 1)

\* At position i starts a number that ends at position a and is followed,
\* after optional whitespace, by one of the units.
UnitAfter(text, i, a, units) ==
    /\ \A k \in i..a : IsDigit(CharAt(text, k))
    /\ \E b \in (a + 1)..Len(text) :
          /\ \A k \in (a + 1)..(b - 1) : IsSpace(CharAt(text, k))
          /\ \E u \in units : StartsWith(text, b, u)

UnitOrder ==
    << [units |-> {"day", "d"},          hours |-> 24],
       [units |-> {"week", "w"},         hours |-> 7 * 24],
       [units |-> {"month", "mo"},       hours |-> 30 * 24],
       [units |-> {"hour", "hr", "h"},   hours |-> 1] >>

\* The relative time the text stands for: the first unit of UnitOrder that
\* occurs after a number, and the leftmost number it occurs after.
RelativeTime(text, now) ==
    LET k == CHOOSE n \in 1..4 :
                 /\ HasUnit(text, UnitOrder[n].units)
                 /\ \A m \in 1..(n - 1) : ~HasUnit(text, UnitOrder[m].units)
        p == CHOOSE ia \in (1..Len(text)) \X (1..Len(text)) :
                 /\ ia[1] <= ia[2]
                 /\ UnitAfter(text, ia[1], ia[2], UnitOrder[k].units)
                 /\ \A i \in 1..(ia[1] - 1) : \A a \in i..Len(text) :
                       ~UnitAfter(text, i, a, UnitOrder[k].units)
    IN  now - ToInt(SubSeq(text, p[1], p[2])) * UnitOrder[k].hours

\* C15: in the relative-unit step the units are tried in the order day,
\* week, month, hour and the first that matches anywhere in the text
\* decides; the result is the current time minus value days, value x 7
\* days, value x 30 days or value hours.  "2 days ago" gives the current
\* time minus 2 days.
C15_UnitOrder ==
    (/\ Parsed
     /\ call.date_str.type = "str"
     /\ call.date_str.text # ""
     /\ ~HasMarker(PolicyText)
     /\ ~Contains(PolicyText, "yesterday")
     /\ HasUnit(PolicyText, AllUnits))
       => /\ call.posted_date = Known(RelativeTime(PolicyText, call.now))
          /\ PolicyText = "2 days ago" =>
                call.posted_date = Known(call.now - 2 * 24)

IsRecentCalled == call.fn = "parse_relative_date" /\ call.stage \in {"kept", "dropped"}

\* C16: is_recent returns true for an unknown date, and for a known date d
\* exactly when d >= now - 30 days, now being the clock it reads itself: a
\* date of exactly now - 30 days is recent, one of now - 31 days is not.
C16_RecencyBoundary ==
    IsRecentCalled =>
        LET d == call.posted_date
            now == call.recent_now
        IN  /\ ~d.known => call.stage = "kept"
            /\ d.known => (call.stage = "kept" <=> d.at >= now - 30 * 24)
            /\ (d.known /\ d.at = now - 30 * 24) => call.stage = "kept"
            /\ (d.known /\ d.at = now - 31 * 24) => call.stage = "dropped"

\* is_recent has accepted a date of exactly 30 days before its own clock.
C16_Witness ==
    /\ IsRecentCalled
    /\ call.posted_date.known
    /\ call.posted_date.at = call.recent_now - 30 * 24
    /\ call.stage = "kept"

\* C20: parse_relative_date never raises, whatever the raw date is; when
\* no step of the policy gives a date it returns None, and the item is
\* then kept by is_recent.
C20_UnparsableNotAnError ==
    /\ Parsed => ~call.posted_date.raised
    /\ (Parsed /\ ~call.posted_date.known) =>
          call.stage \in {"recent", "kept"}

(***************************************************************************)
(* Properties of the classification step.                                  *)
(***************************************************************************)
\* C19: once _mark_seen_jobs has run, every offer of the deduplicated list
\* whose key (its url if not empty, else "title|company") is in the
\* registry loaded at process start has is_new = false and first_seen the
\* entry's first_seen, or "Unknown" if the entry has none; every other
\* offer has is_new = true and first_seen = None.
C19_NoveltyClassification ==
    (Marked /\ loaded.kind = "object") =>
        \A i \in 1..Len(jobs) :
            LET key == IF jobs[i].url # "" THEN jobs[i].url
                       ELSE jobs[i].title \o "|" \o jobs[i].company
            IN  IF key \in DOMAIN loaded.obj
                THEN /\ jobs[i].is_new = FALSE
                     /\ jobs[i].first_seen =
                           IF "first_seen" \in DOMAIN loaded.obj[key].obj
                           THEN loaded.obj[key].obj["first_seen"]
                           ELSE "Unknown"
                ELSE /\ jobs[i].is_new = TRUE
                     /\ jobs[i].first_seen = None

\* A classified list with an offer whose entry has a first_seen, or none,
\* next to an offer without url whose composite key is not in the registry.
C19_Witness ==
    /\ pc = "save"
    /\ loaded = EarlierRegistry
    /\ Len(jobs) = 2
    /\ jobs[1].url = "b" /\ jobs[1].is_new = FALSE /\ jobs[1].first_seen = "Unknown"
    /\ jobs[2].url = "" /\ jobs[2].is_new = TRUE /\ jobs[2].first_seen = None

(***************************************************************************)
(* The adapters of scrape_all, lines 918-970, in call order: how each one  *)
(* fetches, and how many fetches it makes when none fails.                 *)
(*   pages         fetch_page per page; a failed page is passed over       *)
(*                 (lines 212-214, 285-287, 498-501)                       *)
(*   api           one session.get inside a try (lines 382-424)            *)
(*   api_fallback  one session.get inside a try whose except clause        *)
(*                 fetches a page instead (lines 436-467)                  *)
(***************************************************************************)
MaxItems == 2

Adapter(name, how, fetches) == [name |-> name, how |-> how, fetches |-> fetches]

Adapters ==
    << Adapter("web3_career", "pages", 8),
       Adapter("crypto_careers", "pages", 1),
       Adapter("cryptocurrencyjobs", "pages", 4),
       Adapter("cryptojobslist", "api", 1),
       Adapter("jobstash", "api_fallback", 1),
       Adapter("remote3", "pages", 1),
       Adapter("beincrypto", "pages", 1),
       Adapter("dragonfly_jobs", "pages", 1),
       Adapter("pantera_jobs", "pages", 1),
       Adapter("a16z_jobs", "pages", 1),
       Adapter("animoca_careers", "pages", 1),
       Adapter("ashby_board Solana", "pages", 1),
       Adapter("ashby_board Avalanche", "pages", 1),
       Adapter("greenhouse_board Block", "pages", 1),
       Adapter("ethereum_jobs", "pages", 1),
       Adapter("bnbchain_jobs", "pages", 1),
       Adapter("tron_careers", "pages", 1),
       Adapter("midnight_careers", "pages", 1) >>

\* What a fetch gives: an exception of session.get, raise_for_status or
\* response.json; a response whose status is not 200, which the api
\* adapters test for themselves (lines 392, 438); or a document with items.
Failure(exc) == [ok |-> FALSE, exc |-> exc, items |-> << >>]

NotOk == [ok |-> FALSE, exc |-> "", items |-> << >>]

Document(items) == [ok |-> TRUE, exc |-> "", items |-> items]

\* An item of a document: the fields of a candidate that has passed the
\* relevance and recency tests, or an item of a shape that makes reading
\* it raise.
Item(c) == [ok |-> TRUE, title |-> c[1], company |-> c[2], url |-> c[3]]

MalformedItem == [ok |-> FALSE, title |-> "", company |-> "", url |-> ""]

Items == { MalformedItem, Item(<< "t1", "c1", "a" >>), Item(<< "t1", "c1", "" >>) }

ItemLists == UNION { [1..k -> Items] : k \in 0..MaxItems }

Outcomes(how) ==
    { Document(items) : items \in ItemLists } \cup
    (IF how = "pages"
     THEN { Failure("ConnectionError"), Failure("Timeout"), Failure("HTTPError") }
     ELSE { Failure("ConnectionError"), Failure("Timeout"),
            Failure("JSONDecodeError"), Failure("TypeError"), NotOk })

\* except Exception catches only a timeout.
CaughtTimeoutOnly(exc) == exc = "Timeout"

\* except Exception (lines 195, 423, 465): the classes above derive from it.
Caught(exc) ==
    exc \in {"ConnectionError", "Timeout", "HTTPError", "JSONDecodeError",
             "TypeError", "AttributeError", "ValueError", "OverflowError"}

\* The loop over the items stops at the first one that raises.
RECURSIVE ItemsLoopBreak(_, _)
ItemsLoopBreak(items, i) ==
    IF i > Len(items) \/ ~items[i].ok THEN << >>
    ELSE << JobOffer(items[i].title, items[i].company, items[i].url) >>
         \o ItemsLoopBreak(items, i + 1)

\* The loop over the items of a document from the i-th on (lines 219-274,
\* 397-422 and the like): what it appends.  An item that raises is left by
\* `except Exception: continue`.
RECURSIVE ItemsLoop(_, _)
ItemsLoop(items, i) ==
    IF i > Len(items) THEN << >>
    ELSE (IF items[i].ok
          THEN << JobOffer(items[i].title, items[i].company, items[i].url) >>
          ELSE << >>)
         \o ItemsLoop(items, i + 1)

NoOutcome == [ok |-> FALSE, exc |-> "none", items |-> << >>]

\* scrape_all is about to call its first adapter.  down is the adapter, if
\* any, whose site is unreachable during this run.
ScrapeStart(down) ==
    [adapter |-> 1, fetch |-> 1, fallback |-> FALSE, down |-> down,
     failed |-> FALSE, got |-> FALSE, yielded |-> 0, last |-> NoOutcome,
     base |-> 0, others |-> << >>]

InitAdapters ==
    /\ InitStarted
    /\ call = NoCall
    /\ \E down \in 0..Len(Adapters) : scrape = ScrapeStart(down)

InAdapter == pc = "scrape" /\ scrape.adapter \in 1..Len(Adapters)

\* The current adapter makes its next fetch and works through the result.
AdapterFetch ==
    /\ InAdapter
    /\ LET a == Adapters[scrape.adapter]
           how == IF scrape.fallback THEN "pages" ELSE a.how
       IN
       /\ scrape.fallback \/ scrape.fetch <= a.fetches
       /\ \E o \in Outcomes(how) :
             /\ scrape.adapter = scrape.down => ~o.ok
             /\ Len(jobs) + Len(o.items) <= MaxJobs
             /\ IF ~o.ok /\ o.exc # "" /\ ~Caught(o.exc)
                THEN /\ pc' = "failed"
                     /\ jobs' = jobs
                     /\ scrape' = [scrape EXCEPT !.last = o, !.base = Len(jobs),
                                                 !.failed = TRUE]
                ELSE /\ pc' = pc
                     /\ jobs' = jobs \o ItemsLoop(o.items, 1)
                     /\ scrape' =
                          [scrape EXCEPT
                             !.fetch = @ + 1,
                             !.fallback = /\ a.how = "api_fallback"
                                          /\ ~scrape.fallback
                                          /\ ~o.ok /\ o.exc # "",
                             !.failed = @ \/ ~o.ok
                                          \/ \E i \in 1..Len(o.items) : ~o.items[i].ok,
                             !.got = @ \/ o.ok,
                             !.yielded = @ + Len(ItemsLoop(o.items, 1)),
                             !.last = o,
                             !.base = Len(jobs),
                             !.others = IF scrape.adapter = scrape.down THEN @
                                        ELSE @ \o ItemsLoop(o.items, 1)]
    /\ UNCHANGED << file, seen_jobs, clock, runNo, scraped, loaded, fileAtStart,
                    history, call >>

\* The adapter returns; scrape_all sleeps a second and turns to the next
\* adapter (lines 918-970).
AdapterReturn ==
    /\ InAdapter
    /\ ~scrape.fallback
    /\ scrape.fetch > Adapters[scrape.adapter].fetches
    /\ scrape' = [scrape EXCEPT !.adapter = @ + 1, !.fetch = 1, !.failed = FALSE,
                                !.got = FALSE, !.yielded = 0,
                                !.last = NoOutcome, !.base = Len(jobs)]
    /\ UNCHANGED << pipeline, call >>

\* Every adapter has returned: lines 974-984.
AdaptersDone ==
    /\ scrape.adapter = Len(Adapters) + 1
    /\ Deduplicate

NextAdapters ==
    \/ AdapterFetch
    \/ AdapterReturn
    \/ AdaptersDone
    \/ MarkSeen
    \/ SaveSeenJobsOpen
    \/ SaveSeenJobsDump

SpecAdapters == InitAdapters /\ [][NextAdapters]_vars

(***************************************************************************)
(* Properties of the adapters within a run.                                *)
(***************************************************************************)
\* The offers the well-formed items of a document stand for, in order.
WellFormed(item) == item.ok

OffersOf(items) ==
    LET good == SelectSeq(items, WellFormed) IN
        [i \in 1..Len(good) |-> JobOffer(good[i].title, good[i].company, good[i].url)]

\* C17: when one adapter fails on every fetch it makes, the run is not
\* aborted, scrape_all gets through all its adapters and completes, and its
\* job list is the one the other adapters alone give, in their order: as
\* aggregated, after deduplication and after classification.
C17_AdapterIsolation ==
    scrape.down # 0 =>
        /\ pc # "failed"
        /\ pc = "scrape" => jobs = scrape.others
        /\ pc # "scrape" =>
              /\ scrape.adapter = Len(Adapters) + 1
              /\ scraped = scrape.others
        /\ pc = "mark" => jobs = Dedupe(scrape.others)
        /\ pc = "done" => jobs = MarkSeenJobs(loaded, Dedupe(scrape.others))

\* jobstash fails on its API call and on its fallback page; the other
\* adapters have contributed two offers, and the run has completed.
C17_Witness ==
    /\ scrape.down = 5
    /\ pc = "done"
    /\ Len(scraped) = 2
    /\ Len(jobs) = 2
    /\ file.kind = "json"

TitleLoops == {"title", "title_min"}

ApiLoops == {"api", "api_raw"}

Loops == TitleLoops \cup {"title_date"} \cup ApiLoops

RawTitles == {"Growth Lead", "Lead", "Backend Engineer", ""}

RawDescriptions == {"", "Growth marketing role"}

RawItemDates ==
    { Str(""), Str("30 days ago"), Str("31 days ago"), IntValue("1700000000000") }

RawCandidate(title, description, date) ==
    [title |-> title, description |-> description, date |-> date]

\* The raw candidates a loop of the kind can meet: only the api items have
\* a description, and a date that may be no text.
RawsOf(loop) ==
    IF loop \in TitleLoops
    THEN { RawCandidate(t, "", Str("")) : t \in RawTitles }
    ELSE IF loop = "title_date"
    THEN { RawCandidate(t, "", d) : t \in RawTitles,
                                    d \in { x \in RawItemDates : x.type = "str" } }
    ELSE { RawCandidate(t, d[1], d[2]) :
             t \in RawTitles, d \in RawDescriptions \X RawItemDates }

\* `not title or len(title) < 5`, line 851
MinTitleLen == 5

TooShort(loop, title) == loop = "title_min" /\ (title = "" \/ Len(title) < MinTitleLen)

\* The description the loop passes to is_relevant_job.
DescriptionPassed(loop, raw) == IF loop \in ApiLoops THEN raw.description ELSE ""

\* The relevance test is left out.
RelevantUnfiltered(loop, raw) == ~TooShort(loop, raw.title)

\* The test of lines 261, 349, 400, 445, 851: the loop goes on with the item.
Relevant(loop, raw) ==
    /\ ~TooShort(loop, raw.title)
    /\ IsRelevantJob(raw.title, DescriptionPassed(loop, raw))

\* str(posted_str), line 404
StrOf(raw) == Str(raw.text)

\* posted_date as the loop computes it (lines 355, 404, 449).
PostedDate(loop, raw, now) ==
    IF loop \in TitleLoops THEN Unknown
    ELSE IF loop = "api" THEN
         (IF Falsy(raw.date) THEN Unknown ELSE ParseRelativeDate(StrOf(raw.date), now))
    ELSE ParseRelativeDate(raw.date, now)

\* The company and url every candidate of this loop carries.
ItemCompany == "c1"

ItemUrl == "a"

\* What the history keeps of an appended offer.
Accepted(loop, raw, posted_date, recent_now) ==
    [loop |-> loop, title |-> raw.title, description |-> raw.description,
     posted_date |-> posted_date, recent_now |-> recent_now]

ItemCall(loop, raw, n, log) ==
    [fn |-> "item", loop |-> loop, raw |-> raw, now |-> NowAt(1, 10),
     stage |-> "relevance", posted_date |-> Unknown, recent_now |-> 0,
     n |-> n, log |-> log, before |-> << >>]

InitItems ==
    /\ InitPure
    /\ \E loop \in Loops : \E raw \in RawsOf(loop) :
          call = ItemCall(loop, raw, 1, << >>)

otherThanJobs == << file, pc, seen_jobs, clock, runNo, scraped, loaded,
                    fileAtStart, history, scrape >>

\* The relevance test; a title loop appends at once (lines 261-272).
ItemRelevance ==
    /\ call.fn = "item"
    /\ call.stage = "relevance"
    /\ IF ~Relevant(call.loop, call.raw)
       THEN /\ call' = [call EXCEPT !.stage = "rejected"]
            /\ UNCHANGED jobs
       ELSE IF call.loop \in TitleLoops
       THEN /\ jobs' = Append(jobs, JobOffer(call.raw.title, ItemCompany, ItemUrl))
            /\ call' = [call EXCEPT
                          !.stage = "appended",
                          !.log = Append(@, Accepted(call.loop, call.raw, Unknown, 0))]
       ELSE /\ call' = [call EXCEPT !.stage = "date"]
            /\ UNCHANGED jobs
    /\ UNCHANGED otherThanJobs

\* posted_date is computed; an exception leaves the item (lines 369, 421).
ItemDate ==
    /\ call.fn = "item"
    /\ call.stage = "date"
    /\ LET r == PostedDate(call.loop, call.raw, call.now) IN
          call' = [call EXCEPT !.posted_date = r,
                               !.stage = IF r.raised THEN "raised" ELSE "recency"]
    /\ UNCHANGED << jobs, otherThanJobs >>

\* if self.is_recent(posted_date): self.jobs.append(JobOffer(...))
ItemRecency ==
    /\ call.fn = "item"
    /\ call.stage = "recency"
    /\ \E now \in {call.now, call.now + 1} :
          IF IsRecent(call.posted_date, now)
          THEN /\ jobs' = Append(jobs, JobOffer(call.raw.title, ItemCompany, ItemUrl))
               /\ call' = [call EXCEPT
                             !.stage = "appended",
                             !.recent_now = now,
                             !.log = Append(@, Accepted(call.loop, call.raw,
                                                         call.posted_date, now))]
          ELSE /\ call' = [call EXCEPT !.stage = "dropped", !.recent_now = now]
               /\ UNCHANGED jobs
    /\ UNCHANGED otherThanJobs

\* The loop turns to the next item of the document.
ItemNext ==
    /\ call.fn = "item"
    /\ call.stage \in {"rejected", "raised", "dropped", "appended"}
    /\ call.n < MaxItems
    /\ \E raw \in RawsOf(call.loop) :
          call' = [ItemCall(call.loop, raw, call.n + 1, call.log)
                      EXCEPT !.before = jobs]
    /\ UNCHANGED << jobs, otherThanJobs >>

NextItems == ItemRelevance \/ ItemDate \/ ItemRecency \/ ItemNext

SpecItems == InitItems /\ [][NextItems]_vars

(***************************************************************************)
(* Properties of the item loop.                                            *)
(***************************************************************************)
\* C21: no offer of the job list has the empty string as its title,
\* whatever raw candidates the adapters have met.
C21_TitleNotEmpty ==
    \A i \in 1..Len(jobs) : jobs[i].title # ""

InItemLoop == call.fn = "item"

\* What is_relevant_job answers for each title and description of the raw
\* candidates.
FilterAnswer ==
    [t \in RawTitles, d \in RawDescriptions |-> IsRelevantJob(t, d)]

\* The description an item loop of the kind hands to the filter.
Supplied(loop, description) ==
    IF loop \in {"api", "api_raw"} THEN description ELSE ""

\* C24: every offer of the aggregated list stands for a raw candidate that
\* is_relevant_job accepted on its title, and on its description where the
\* loop passes one, and its posted_date is None or a date is_recent
\* accepted with the clock of that moment; an item that the relevance or
\* the recency test turns down leaves the list, the registry and the file
\* as they were.
C24_OnlyAcceptedAppended ==
    InItemLoop =>
        /\ Len(call.log) = Len(jobs)
        /\ \A i \in 1..Len(jobs) :
              LET e == call.log[i] IN
                 /\ jobs[i].title = e.title
                 /\ FilterAnswer[e.title, Supplied(e.loop, e.description)]
                 /\ ~e.posted_date.raised
                 /\ e.posted_date.known =>
                       e.posted_date.at >= e.recent_now - 30 * 24
        /\ call.stage \in {"rejected", "dropped"} =>
              /\ jobs = call.before
              /\ seen_jobs = loaded
              /\ file = fileAtStart
        /\ (call.stage = "rejected" /\ call.loop # "title_min") =>
              ~FilterAnswer[call.raw.title, Supplied(call.loop, call.raw.description)]
        /\ call.stage = "dropped" =>
              /\ call.posted_date.known
              /\ call.posted_date.at < call.recent_now - 30 * 24

\* An api loop has appended an offer with a date, then turned down an item
\* whose title is excluded although its description matches, or one that is
\* too old.
C24_Witness ==
    /\ InItemLoop
    /\ call.loop = "api"
    /\ call.n = 2
    /\ Len(jobs) = 1
    /\ call.log[1].posted_date.known
    /\ call.stage = "rejected"
    /\ call.raw.title = "Backend Engineer"
    /\ call.raw.description = "Growth marketing role"
    /\ jobs = call.before

(***************************************************************************)
(* Properties of the registry update of a completed run.                   *)
(***************************************************************************)
\* C22: when a run has completed, the file holds the in-memory registry,
\* the registry holds the key of every offer of the final job list, and a
\* key the loaded registry did not hold has the entry first_seen = the
\* date of the run, title and company of an offer of this run with that
\* key.
C22_CompletedRunPersisted ==
    pc = "done" =>
        /\ file = JsonFile(seen_jobs)
        /\ \A i \in 1..Len(jobs) : JobKey(jobs[i]) \in PersistedKeys(file)
        /\ \A k \in PersistedKeys(file) \cap OutKeys :
              k \notin DOMAIN loaded.obj =>
                 \E i \in 1..Len(jobs) :
                    /\ JobKey(jobs[i]) = k
                    /\ file.doc.obj[k] =
                          JObject([first_seen |-> Strftime(clock),
                                   title |-> jobs[i].title,
                                   company |-> jobs[i].company])

\* A second run, on a later day, has completed with an offer whose key the
\* registry held and an offer whose key is new; the file holds both.
C22_Witness ==
    /\ pc = "done" /\ runNo = 2 /\ lastRun.today # EarlierDay
    /\ Len(jobs) = 2
    /\ JobKey(jobs[1]) \in DOMAIN loaded.obj
    /\ JobKey(jobs[2]) \notin DOMAIN loaded.obj
    /\ NoUrl(jobs[2])
    /\ file.doc.obj[JobKey(jobs[1])] = loaded.obj[JobKey(jobs[1])]
    /\ file.doc.obj[JobKey(jobs[2])].obj["first_seen"] = Strftime(clock)
    /\ file.doc.obj[JobKey(jobs[2])].obj["title"] = jobs[2].title

\* C23: the offers are classified before the registry is updated and
\* against the registry as loaded: from the load to the end of the
\* classification the registry in memory and the file are as loaded; the
\* mark of an offer is a function of its own key and the loaded registry,
\* whatever the other offers of the run are; and from an empty registry
\* every offer of the final list is marked new with first_seen None.
C23_ClassifiedAgainstLoaded ==
    /\ pc \in {"scrape", "mark", "save"} =>
          /\ seen_jobs = loaded
          /\ file = fileAtStart
    /\ Marked =>
          \A i \in 1..Len(jobs) :
              LET k == JobKey(jobs[i]) IN
                 IF k \in DOMAIN loaded.obj
                 THEN /\ jobs[i].is_new = FALSE
                      /\ jobs[i].first_seen = GetFirstSeen(loaded.obj[k])
                 ELSE /\ jobs[i].is_new = TRUE
                      /\ jobs[i].first_seen = None
    /\ (Marked /\ loaded = EmptyRegistry) =>
          \A i \in 1..Len(jobs) : jobs[i].is_new /\ jobs[i].first_seen = None

\* A run that started from an empty registry has classified two offers of
\* one key, title|company, and not yet updated the registry: both are new.
C23_Witness ==
    /\ pc = "save"
    /\ loaded = EmptyRegistry /\ seen_jobs = EmptyRegistry
    /\ Len(jobs) = 2
    /\ Twins(jobs[1], jobs[2])
    /\ jobs[1].is_new /\ jobs[2].is_new
    /\ jobs[2].first_seen = None

(***************************************************************************)
(* Properties of the absolute date formats.                                *)
(***************************************************************************)
\* Some format of the list parses the text.
InAbsoluteFormat(text) ==
    \E i \in 1..Len(date_formats) : ~Strptime(text, date_formats[i]).raised

\* The raw date is a text without today/yesterday marker that is written
\* in one of the absolute formats.
AbsoluteText ==
    /\ call.fn = "parse_relative_date"
    /\ call.date_str.type = "str"
    /\ ~HasMarker(PolicyText)
    /\ ~Contains(PolicyText, "yesterday")
    /\ InAbsoluteFormat(PolicyText)

\* C25: for a text without today/yesterday marker that is written in one
\* of the seven absolute formats, parse_relative_date returns the date of
\* the first format of the list that parses it: 15 December 2023 for
\* "15 December 2023", 5 June 2023 for "05/06/2023".
C25_AbsoluteFormats ==
    (Parsed /\ AbsoluteText) =>
        /\ call.posted_date = FormatsLoop(PolicyText, 1)
        /\ PolicyText = "15 december 2023" =>
              call.posted_date = Known(DateTime(2023, 12, 15, 0))
        /\ PolicyText = "05/06/2023" =>
              call.posted_date = Known(DateTime(2023, 6, 5, 0))

(***************************************************************************)
(* Properties of the recency window across the two clock readings.         *)
(***************************************************************************)
\* C27: an item whose raw date is "30 days ago" or "1 month ago" is kept:
\* is_recent accepts what parse_relative_date returned, whichever the two
\* clock readings, the second not before the first.
C27_WindowLengthKept ==
    (/\ IsRecentCalled
     /\ call.date_str.type = "str"
     /\ PolicyText \in {"30 days ago", "1 month ago"}
     /\ call.now <= call.recent_now) =>
        call.stage = "kept"

(***************************************************************************)
(* The identity key on its own: job_key of lines 94 and 108 computed for   *)
(* two offers of a job list.  Titles and companies are the texts of the    *)
(* sites and may hold any character, "|" included; a url is empty or       *)
(* whatever the item's link or the API gives.                              *)
(***************************************************************************)
KeyTitles == {"t1", "Growth Lead", "Growth Lead|Remote"}

KeyCompanies == {"c1", "Acme", "Remote|Acme"}

KeyUrls == {"", "a", "b", "t1|c1"}

KeyOffers ==
    { JobOffer(t, c, u) : t \in KeyTitles, c \in KeyCompanies, u \in KeyUrls }

InitKey ==
    /\ InitPure
    /\ \E x \in KeyOffers, y \in KeyOffers :
          call = [fn |-> "job_key", x |-> x, y |-> y, returned |-> FALSE,
                  key_x |-> "", key_y |-> ""]

\* job_key = job.url if job.url else f"{job.title}|{job.company}"
JobKeyCall ==
    /\ call.fn = "job_key"
    /\ ~call.returned
    /\ call' = [call EXCEPT !.returned = TRUE,
                            !.key_x = JobKey(call.x),
                            !.key_y = JobKey(call.y)]
    /\ UNCHANGED << pipeline, scrape >>

NextKey == JobKeyCall

SpecKey == InitKey /\ [][NextKey]_vars

(***************************************************************************)
(* Properties of the identity key.                                         *)
(***************************************************************************)
\* C26: two offers get the same key only if they have the same non-empty
\* url, or both have an empty url and the same title and the same company:
\* an offer with a url and one without never share a key, nor do two
\* offers without url that differ in title or in company.
C26_KeyInjective ==
    (Returned("job_key") /\ call.key_x = call.key_y) =>
        \/ call.x.url # "" /\ call.x.url = call.y.url
        \/ /\ call.x.url = "" /\ call.y.url = ""
           /\ call.x.title = call.y.title
           /\ call.x.company = call.y.company

(***************************************************************************)
(* Two processes on one registry file, as when a scheduled run starts      *)
(* before the previous one has ended.  Each process has its own            *)
(* self.seen_jobs and self.jobs and goes through __init__ and scrape_all   *)
(* as above; the file and the clock are shared, and nothing in the code    *)
(* locks the file.  written keeps, for every key a process has dumped,     *)
(* the first_seen it was first dumped with.                                *)
(***************************************************************************)
Procs == {1, 2}

OverlapCandidates ==
    { << "t1", "c1", "a" >>, << "t1", "c1", "b" >>, << "t2", "c1", "" >> }

OverlapFiles ==
    { FileOf("absent", JNull), JsonFile(JObject(EmptyMap)),
      JsonFile(JObject(DictPut(EmptyMap, "a", EarlierRecord))) }

NotStarted ==
    [pc |-> "idle", seen_jobs |-> JObject(EmptyMap), loaded |-> JObject(EmptyMap),
     jobs |-> << >>]

InitOverlap ==
    /\ file \in OverlapFiles
    /\ pc = "idle"
    /\ seen_jobs = JObject(EmptyMap)
    /\ jobs = << >>
    /\ clock = 1
    /\ runNo = 0
    /\ scraped = << >>
    /\ loaded = JObject(EmptyMap)
    /\ fileAtStart = file
    /\ reported = {}
    /\ firstNew = EmptyMap
    /\ newCount = [k \in {} |-> 0]
    /\ lastRun = NoRun
    /\ scrape = NoScrape
    /\ call = [fn |-> "overlap", procs |-> [p \in Procs |-> NotStarted],
               written |-> EmptyMap]

\* What a process of the pair leaves alone: the state of the single process.
single == << pc, seen_jobs, jobs, runNo, scraped, loaded, fileAtStart, history,
            scrape >>

\* JobHunter.__init__ of process p: the registry is what the file holds now.
OverlapConstruct ==
    /\ call.fn = "overlap"
    /\ \E p \in Procs :
          /\ call.procs[p].pc = "idle"
          /\ ~LoadRaises(file)
          /\ call' = [call EXCEPT !.procs[p] =
                         [pc |-> "scrape", seen_jobs |-> LoadSeenJobs(file),
                          loaded |-> LoadSeenJobs(file), jobs |-> << >>]]
    /\ UNCHANGED << file, clock, single >>

\* An adapter of process p accepts a candidate.
OverlapScrapeAppend ==
    /\ call.fn = "overlap"
    /\ \E p \in Procs :
          /\ call.procs[p].pc = "scrape"
          /\ Len(call.procs[p].jobs) < MaxJobs
          /\ \E c \in OverlapCandidates :
                call' = [call EXCEPT !.procs[p].jobs =
                            Append(@, JobOffer(c[1], c[2], c[3]))]
    /\ UNCHANGED << file, clock, single >>

\* scrape_all of process p, lines 974-987: deduplication, then
\* _mark_seen_jobs against the registry p loaded.
OverlapMarkSeen ==
    /\ call.fn = "overlap"
    /\ \E p \in Procs :
          /\ call.procs[p].pc = "scrape"
          /\ LET unique_jobs == Dedupe(call.procs[p].jobs)
                 seen == call.procs[p].seen_jobs
             IN  IF MarkSeenRaises(seen, unique_jobs)
                 THEN call' = [call EXCEPT !.procs[p].pc = "failed",
                                           !.procs[p].jobs = unique_jobs]
                 ELSE call' = [call EXCEPT !.procs[p].pc = "save",
                                           !.procs[p].jobs =
                                              MarkSeenJobs(seen, unique_jobs)]
    /\ UNCHANGED << file, clock, single >>

\* _save_seen_jobs of process p up to open(SEEN_JOBS_FILE, 'w'); the day
\* may have changed since the processes started.
OverlapSaveOpen ==
    /\ call.fn = "overlap"
    /\ \E p \in Procs :
          /\ call.procs[p].pc = "save"
          /\ \E day \in {clock, clock + 1} :
                /\ day <= MaxRuns
                /\ clock' = day
                /\ LET r == UpdateLoop(call.procs[p].seen_jobs, Strftime(day),
                                       call.procs[p].jobs)
                   IN  IF r.raised
                       THEN /\ call' = [call EXCEPT !.procs[p].pc = "failed"]
                            /\ UNCHANGED file
                       ELSE /\ call' = [call EXCEPT !.procs[p].pc = "dump",
                                                    !.procs[p].seen_jobs = r.seen]
                            /\ file' = FileOf("empty", JNull)
    /\ UNCHANGED single

\* The first_seen of each key of a registry that has one.
FirstSeenOf(seen) ==
    [k \in { j \in DOMAIN seen.obj : seen.obj[j].kind = "object"
                                     /\ "first_seen" \in DOMAIN seen.obj[j].obj }
       |-> seen.obj[k].obj["first_seen"]]

\* json.dump of process p, line 103; scrape_all returns.
OverlapSaveDump ==
    /\ call.fn = "overlap"
    /\ \E p \in Procs :
          /\ call.procs[p].pc = "dump"
          /\ file' = JsonFile(call.procs[p].seen_jobs)
          /\ LET dumped == FirstSeenOf(call.procs[p].seen_jobs) IN
                call' = [call EXCEPT
                           !.procs[p].pc = "done",
                           !.written = [k \in DOMAIN @ \cup DOMAIN dumped |->
                                           IF k \in DOMAIN @ THEN @[k]
                                           ELSE dumped[k]]]
    /\ UNCHANGED << clock, single >>

NextOverlap ==
    \/ OverlapConstruct
    \/ OverlapScrapeAppend
    \/ OverlapMarkSeen
    \/ OverlapSaveOpen
    \/ OverlapSaveDump

SpecOverlap == InitOverlap /\ [][NextOverlap]_vars

(***************************************************************************)
(* Properties of overlapping runs.                                         *)
(***************************************************************************)
BothDone == call.fn = "overlap" /\ \A p \in Procs : call.procs[p].pc = "done"

\* The keys of the offers process p reported.
KeysOf(p) == { JobKey(call.procs[p].jobs[i]) : i \in 1..Len(call.procs[p].jobs) }

\* C28: when both of two overlapping runs have finished, the file holds
\* the key of every offer either run reported, and every key a run has
\* written to the file still has the first_seen it was first written
\* with.
C28_OverlapKeepsAll ==
    BothDone =>
        /\ \A p \in Procs : KeysOf(p) \subseteq PersistedKeys(file)
        /\ \A k \in DOMAIN call.written :
              /\ k \in PersistedKeys(file)
              /\ k \in DOMAIN FirstSeenOf(file.doc)
              /\ FirstSeenOf(file.doc)[k] = call.written[k]

====
